---- MODULE Spec2Model ----
(***************************************************************************)
(* Model of speechbrain/utils/train_logger.py: the FileTrainLogger and     *)
(* TensorboardLogger sinks and the summarize_average summary function.     *)
(*                                                                         *)
(* Python values are modelled as follows.                                  *)
(*   - a number is a record [t, num, den]: t = "int" (den = 1) or          *)
(*     t = "float", standing for the double nearest to num/den.  The       *)
(*     floats the model draws and the means it takes are either exactly    *)
(*     representable or further from a two-decimal tie than a rounding     *)
(*     error, so formatting the rational formats the double.               *)
(*   - a dict is the sequence of its (key, value) items in insertion       *)
(*     order, keys distinct.                                               *)
(*   - an optional argument is None (the empty tuple) or Some(d).          *)
(*   - an exception is the name of its class; "none" is normal return.     *)
(***************************************************************************)
EXTENDS Integers, Sequences, FiniteSets, TLC

VARIABLES
    global_step,    \* TensorboardLogger.global_step
    writer,         \* points received by TensorboardLogger.writer, in order
    twin_step,      \* global_step of a second TensorboardLogger
    twin_writer,    \* points received by the second logger's writer
    console,        \* lines emitted through logger.info, in order
    tb_calls,       \* history: the log_stats calls made on the TensorboardLogger,
                    \* with the exception raised and the writes attempted
    last_verbose,   \* history: the values verbose was bound to in the last
                    \* call of each TensorboardLogger
    summary_fns,    \* FileTrainLogger.summary_fns
    save_file,      \* lines of the file FileTrainLogger.save_file names
    io_trace,       \* history: file writes and console lines in the order made
    file_calls,     \* history: the log_stats calls made on the FileTrainLogger
    avg_in,         \* argument of the last summarize_average call
    avg_out         \* its outcome

vars == <<global_step, writer, twin_step, twin_writer, console, tb_calls,
          last_verbose, summary_fns, save_file, io_trace, file_calls, avg_in, avg_out>>

tbVars == <<global_step, writer, twin_step, twin_writer, tb_calls, last_verbose>>
fileVars == <<summary_fns, save_file, io_trace, file_calls>>
avgVars == <<avg_in, avg_out>>

(***************************************************************************)
(* Bounds                                                                  *)
(***************************************************************************)
MaxCalls == 2       \* log_stats calls made on one logger
MaxLen == 3         \* length of a sample list given to summarize_average

(***************************************************************************)
(* Values                                                                  *)
(***************************************************************************)
Int_(n) == [t |-> "int", num |-> n, den |-> 1]
Float_(n, d) == [t |-> "float", num |-> n, den |-> d]

None == <<>>
Some(d) == <<d>>

Keys(d) == {d[i][1] : i \in 1..Len(d)}

\* d[key] for a dict d that has the key
Lookup(d, key) == d[CHOOSE i \in 1..Len(d) : d[i][1] = key][2]

(***************************************************************************)
(* summarize_average                                                       *)
(***************************************************************************)
RECURSIVE GCD(_, _)
GCD(a, b) == IF b = 0 THEN a ELSE GCD(b, a % b)

Abs(n) == IF n < 0 THEN -n ELSE n

\* the float num/den in lowest terms (den > 0)
Ratio(num, den) ==
    LET g == GCD(Abs(num), den)
    IN  [t |-> "float", num |-> num \div g, den |-> den \div g]

\* a + b; an int only when both are
Add(a, b) ==
    IF a.t = "int" /\ b.t = "int" THEN Int_(a.num + b.num)
    ELSE Ratio(a.num * b.den + b.num * a.den, a.den * b.den)

\* sum(stat_list): from 0, left to right
RECURSIVE sum(_, _)
sum(stat_list, n) ==
    IF n = 0 THEN Int_(0) ELSE Add(sum(stat_list, n - 1), stat_list[n])

\* variant: floor division
TrueDiv_floor(a, n) == Ratio(a.num \div (a.den * n), 1)

\* a / n for n # 0 (true division: a float)
TrueDiv(a, n) == Ratio(a.num, a.den * n)

\* a returned value, or the exception raised
Return(value) == [err |-> "none", value |-> value]
Raise(exception) == [err |-> exception, value |-> None]

\* return float(sum(stat_list) / len(stat_list))
summarize_average(stat_list) ==
    IF Len(stat_list) = 0 THEN Raise("ZeroDivisionError")
    ELSE Return(TrueDiv(sum(stat_list, Len(stat_list)), Len(stat_list)))

(***************************************************************************)
(* FileTrainLogger                                                         *)
(***************************************************************************)

\* n / d rounded to the nearest integer, ties to even (n >= 0, d > 0)
RoundHalfEven(n, d) ==
    LET q == n \div d
        r == n % d
    IN  IF 2 * r < d THEN q
        ELSE IF 2 * r > d THEN q + 1
        ELSE IF q % 2 = 0 THEN q ELSE q + 1

\* f"{value:.2f}"
Format2f(value) ==
    LET h == RoundHalfEven(100 * Abs(value.num), value.den)
    IN  (IF value.num < 0 THEN "-" ELSE "") \o ToString(h \div 100) \o "."
        \o (IF h % 100 < 10 THEN "0" ELSE "") \o ToString(h % 100)

\* _item_to_string(key, value)
item_to_string(key, value) ==
    key \o ": " \o (IF value.t = "float" THEN Format2f(value) ELSE ToString(value.num))

\* " - ".join(the strings of the first n items)
RECURSIVE JoinItems(_, _)
JoinItems(stats, n) ==
    IF n = 0 THEN ""
    ELSE IF n = 1 THEN item_to_string(stats[1][1], stats[1][2])
    ELSE JoinItems(stats, n - 1) \o " - " \o item_to_string(stats[n][1], stats[n][2])

\* _stats_to_string(stats)
stats_to_string(stats) == JoinItems(stats, Len(stats))

\* fn(value_list) for a summary function
Apply(fn, value_list) ==
    IF fn = "summarize_average" THEN summarize_average(value_list)
    ELSE Return(Int_(Len(value_list)))      \* the builtin len

\* variant: a missing name falls back to a default function
GetItem_default(fns, stat) ==
    IF stat \in Keys(fns) THEN Return(Lookup(fns, stat)) ELSE Return("len")

\* self.summary_fns[stat]
GetItem(fns, stat) ==
    IF stat \in Keys(fns) THEN Return(Lookup(fns, stat)) ELSE Raise("KeyError")

\* summary[stat] = self.summary_fns[stat](value_list), for the items from i on
RECURSIVE SummaryLoop(_, _, _, _)
SummaryLoop(fns, stats, i, summary) ==
    IF i > Len(stats) THEN Return(summary)
    ELSE LET fn == GetItem(fns, stats[i][1])
             r == IF fn.err # "none" THEN fn ELSE Apply(fn.value, stats[i][2])
         IN  IF r.err # "none" THEN Raise(r.err)
             ELSE SummaryLoop(fns, stats, i + 1, Append(summary, <<stats[i][1], r.value>>))

\* variant: the separator before a phase is forgotten
Extend_unseparated(string_summary, summary) == string_summary \o stats_to_string(summary)

\* string_summary += " - " + self._stats_to_string(summary)
Extend(string_summary, summary) == string_summary \o " - " \o stats_to_string(summary)

\* for stats in [train_stats, valid_stats, test_stats]
RECURSIVE PhaseLoop(_, _, _, _)
PhaseLoop(fns, bundles, i, string_summary) ==
    IF i > Len(bundles) THEN Return(string_summary)
    ELSE IF bundles[i] = None THEN PhaseLoop(fns, bundles, i + 1, string_summary)
    ELSE LET r == SummaryLoop(fns, bundles[i][1], 1, << >>)
         IN  IF r.err # "none" THEN Raise(r.err)
             ELSE PhaseLoop(fns, bundles, i + 1, Extend(string_summary, r.value))

\* variant: the file is opened with mode "w"
AppendLine_truncating(st, line) ==
    [st EXCEPT !.save_file = <<line>>,
               !.io_trace = Append(@, [op |-> "write", line |-> line])]

\* with open(self.save_file, "a") as fout: print(string_summary, file=fout)
AppendLine(st, line) ==
    [st EXCEPT !.save_file = Append(@, line),
               !.io_trace = Append(@, [op |-> "write", line |-> line])]

\* if verbose: logger.info(string_summary)
Echo(st, line, verbose) ==
    IF verbose
    THEN [st EXCEPT !.console = Append(@, line),
                    !.io_trace = Append(@, [op |-> "info", line |-> line])]
    ELSE st

\* variant: the console line is emitted before the file is written
Output_echo_first(st, line, verbose) == AppendLine(Echo(st, line, verbose), line)

\* lines 85-88: the file append, then the console echo
Output(st, line, verbose) == Echo(AppendLine(st, line), line, verbose)

\* variant: the epoch part is written to the file before the phases are
\* summarised
FileTrainLogger_log_stats_partial(fns, st, epoch_stats, train_stats, valid_stats, test_stats, verbose) ==
    LET r == PhaseLoop(fns, <<train_stats, valid_stats, test_stats>>, 1,
                       stats_to_string(epoch_stats))
    IN  IF r.err # "none"
        THEN [AppendLine(st, stats_to_string(epoch_stats)) EXCEPT !.err = r.err]
        ELSE Output(st, r.value, verbose)

\* FileTrainLogger.log_stats on a logger with summary functions fns, the file,
\* console and trace in state st; the file can be opened for appending.
FileTrainLogger_log_stats(fns, st, epoch_stats, train_stats, valid_stats, test_stats, verbose) ==
    LET r == PhaseLoop(fns, <<train_stats, valid_stats, test_stats>>, 1,
                       stats_to_string(epoch_stats))
    IN  IF r.err # "none" THEN [st EXCEPT !.err = r.err]
        ELSE Output(st, r.value, verbose)

(***************************************************************************)
(* TensorboardLogger                                                       *)
(***************************************************************************)

\* __init__: self.global_step = {"train": {}, "valid": {}, "epoch": 0}
TensorboardLogger_init == [train |-> <<>>, valid |-> <<>>, epoch |-> 0]

\* variant: a write that raises is caught and ignored
add_scalar_swallowed(st, tag, value, step, site) ==
    IF st.n + 1 = st.failAt
    THEN [st EXCEPT !.n = @ + 1]
    ELSE [st EXCEPT !.n = @ + 1,
                    !.writer = Append(@, [tag |-> tag, value |-> value,
                                          step |-> step, site |-> site])]

\* self.writer.add_scalar(tag, value, step): the backend receives the point,
\* or the write raises (the failAt-th write of the call, when failAt > 0).
\* site records which statement of log_stats made the call.
add_scalar(st, tag, value, step, site) ==
    IF st.n + 1 = st.failAt
    THEN [st EXCEPT !.n = @ + 1, !.err = "WriteError"]
    ELSE [st EXCEPT !.n = @ + 1,
                    !.writer = Append(@, [tag |-> tag, value |-> value,
                                          step |-> step, site |-> site])]

\* for name, value in epoch_stats.items(): add_scalar(name, value, epoch)
RECURSIVE EpochLoop(_, _, _)
EpochLoop(st, items, i) ==
    IF i > Len(items) \/ st.err # "none" THEN st
    ELSE EpochLoop(add_scalar(st, items[i][1], items[i][2],
                              st.global_step.epoch, "epoch"),
                   items, i + 1)

\* variant: the new step is never stored
StoreCounter_dropped(st, dataset, stat, new_global_step) == st

\* variant: one counter per statistic name, shared by the phases
StoreCounter_shared(st, dataset, stat, new_global_step) ==
    [st EXCEPT !.global_step.train =
                   IF stat \in DOMAIN @ THEN [@ EXCEPT ![stat] = new_global_step] ELSE @,
               !.global_step.valid =
                   IF stat \in DOMAIN @ THEN [@ EXCEPT ![stat] = new_global_step] ELSE @]

\* self.global_step[dataset][stat] = new_global_step
StoreCounter(st, dataset, stat, new_global_step) ==
    [st EXCEPT !.global_step[dataset][stat] = new_global_step]

\* for value in value_list: one point per value, then the counter is stored
RECURSIVE ValueLoop(_, _, _, _, _)
ValueLoop(st, dataset, stat, value_list, i) ==
    IF i > Len(value_list) \/ st.err # "none" THEN st
    ELSE LET new_global_step == st.global_step[dataset][stat] + 1
             tag == stat \o "/" \o dataset
             sent == add_scalar(st, tag, value_list[i], new_global_step, "sample")
         IN  IF sent.err # "none" THEN sent
             ELSE ValueLoop(StoreCounter(sent, dataset, stat, new_global_step),
                            dataset, stat, value_list, i + 1)

\* variant: the counter is set to 0 without the membership test
InitCounter_reset(st, dataset, stat) ==
    IF dataset \notin DOMAIN st.global_step
    THEN [st EXCEPT !.err = "KeyError"]
    ELSE [st EXCEPT !.global_step[dataset] =
              [s \in DOMAIN @ \cup {stat} |-> IF s = stat THEN 0 ELSE @[s]]]

\* if stat not in self.global_step[dataset]: self.global_step[dataset][stat] = 0
InitCounter(st, dataset, stat) ==
    IF dataset \notin DOMAIN st.global_step
    THEN [st EXCEPT !.err = "KeyError"]
    ELSE IF stat \in DOMAIN st.global_step[dataset] THEN st
    ELSE [st EXCEPT !.global_step[dataset] = @ @@ (stat :> 0)]

\* for stat, value_list in stats.items()
RECURSIVE StatLoop(_, _, _, _)
StatLoop(st, dataset, items, i) ==
    IF i > Len(items) \/ st.err # "none" THEN st
    ELSE LET counted == InitCounter(st, dataset, items[i][1])
         IN  IF counted.err # "none" THEN counted
             ELSE StatLoop(ValueLoop(counted, dataset, items[i][1], items[i][2], 1),
                           dataset, items, i + 1)

\* for dataset, stats in [("train", ..), ("valid", ..), ("test", ..)]
RECURSIVE DatasetLoop(_, _, _)
DatasetLoop(st, pairs, i) ==
    IF i > Len(pairs) \/ st.err # "none" THEN st
    ELSE IF pairs[i][2] = None THEN DatasetLoop(st, pairs, i + 1)
    ELSE DatasetLoop(StatLoop(st, pairs[i][1], pairs[i][2][1], 1), pairs, i + 1)

\* variant: the epoch counter is assigned 1 instead of incremented
BumpEpoch_assigned(st) == [st EXCEPT !.global_step.epoch = 1]

\* self.global_step["epoch"] += 1
BumpEpoch(st) == [st EXCEPT !.global_step.epoch = @ + 1]

\* variant: a verbose call also echoes to the console
TensorboardLogger_log_stats_echo(gs, w, con, epoch_stats, train_stats, valid_stats, test_stats, verbose, failAt) ==
    LET st0 == [global_step |-> gs, writer |-> w,
                console |-> IF verbose THEN Append(con, "epoch") ELSE con,
                err |-> "none", n |-> 0, failAt |-> failAt]
        st1 == EpochLoop(BumpEpoch(st0), epoch_stats, 1)
    IN  DatasetLoop(st1, << <<"train", train_stats>>,
                            <<"valid", valid_stats>>,
                            <<"test", test_stats>> >>, 1)

\* TensorboardLogger.log_stats on a logger in state (gs, w), with the console
\* in state con; the result holds the new state and the exception raised.
TensorboardLogger_log_stats(gs, w, con, epoch_stats, train_stats, valid_stats, test_stats, verbose, failAt) ==
    LET st0 == [global_step |-> gs, writer |-> w, console |-> con,
                err |-> "none", n |-> 0, failAt |-> failAt]
        st1 == EpochLoop(BumpEpoch(st0), epoch_stats, 1)
    IN  DatasetLoop(st1, << <<"train", train_stats>>,
                            <<"valid", valid_stats>>,
                            <<"test", test_stats>> >>, 1)

(***************************************************************************)
(* Arguments the callers of TensorboardLogger.log_stats draw from          *)
(***************************************************************************)
TbEpochStats ==
    { << <<"epoch", Int_(1)>>, <<"lr", Float_(1, 8)>> >>,
      << <<"loss/train", Float_(1, 1)>> >>,
      << >> }

LossTwo == << <<"loss", <<Float_(1, 1), Float_(2, 1)>> >> >>
LossOne == << <<"loss", <<Float_(3, 1)>> >> >>
AccLoss == << <<"acc", << >> >>, <<"loss", <<Float_(3, 1)>> >> >>

TbTrainStats == {None, Some(AccLoss)}
TbValidStats == {None, Some(LossTwo), Some(LossOne)}
TbTestStats == {None, Some(<< >>), Some(LossOne)}

\* the writes of a call that may raise: none (0), or the first, second or third
NoFailure == {0}
FailPoints == {0, 1, 2, 3}

\* one log_stats call on the logger, its arguments drawn from the given sets
TbCall(E, TR, VA, TE, F) ==
    /\ Len(tb_calls) < MaxCalls
    /\ \E e \in E, tr \in TR, va \in VA, te \in TE, verbose \in BOOLEAN, failAt \in F :
         LET r == TensorboardLogger_log_stats(global_step, writer, console,
                                              e, tr, va, te, verbose, failAt)
         IN  /\ global_step' = r.global_step
             /\ writer' = r.writer
             /\ console' = r.console
             /\ tb_calls' = Append(tb_calls,
                    [epoch_stats |-> e, train_stats |-> tr, valid_stats |-> va,
                     test_stats |-> te, err |-> r.err, attempts |-> r.n])
    /\ UNCHANGED <<twin_step, twin_writer, last_verbose>>
    /\ UNCHANGED fileVars
    /\ UNCHANGED avgVars

\* a call whose backend accepts every write
TbLogStats == TbCall(TbEpochStats, TbTrainStats, TbValidStats, TbTestStats, NoFailure)

\* a call whose backend may raise on a write
TbLogStatsUnreliable ==
    TbCall({<< <<"epoch", Int_(1)>>, <<"lr", Float_(1, 8)>> >>},
           {None, Some(AccLoss)}, TbValidStats, {None, Some(LossOne)},
           FailPoints)

\* the same call made on two loggers in the same state, the verbose
\* arguments chosen independently
TbLogStatsPair ==
    /\ Len(tb_calls) < MaxCalls
    /\ \E e \in {<< <<"epoch", Int_(1)>>, <<"lr", Float_(1, 8)>> >>, << >>},
          tr \in TbTrainStats, va \in TbValidStats, te \in {None, Some(LossOne)},
          verbose1 \in BOOLEAN, verbose2 \in BOOLEAN :
         LET r1 == TensorboardLogger_log_stats(global_step, writer, console,
                                               e, tr, va, te, verbose1, 0)
             r2 == TensorboardLogger_log_stats(twin_step, twin_writer, r1.console,
                                               e, tr, va, te, verbose2, 0)
         IN  /\ global_step' = r1.global_step
             /\ writer' = r1.writer
             /\ twin_step' = r2.global_step
             /\ twin_writer' = r2.writer
             /\ console' = r2.console
             /\ last_verbose' = <<verbose1, verbose2>>
             /\ tb_calls' = Append(tb_calls,
                    [epoch_stats |-> e, train_stats |-> tr, valid_stats |-> va,
                     test_stats |-> te, err |-> r1.err, attempts |-> r1.n])
    /\ UNCHANGED fileVars
    /\ UNCHANGED avgVars

(***************************************************************************)
(* Arguments the callers of FileTrainLogger.log_stats draw from            *)
(***************************************************************************)
\* FileTrainLogger(save_file, {"loss": summarize_average, "count": len})
FileSummaryFns == << <<"loss", "summarize_average">>, <<"count", "len">> >>

FileEpochStats ==
    { << <<"epoch", Int_(1)>> >>,
      << <<"lr", Float_(12345, 10000000)>>, <<"count", Int_(3)>> >> }

LossAvg == << <<"loss", <<Float_(1, 1), Float_(3, 1)>> >> >>
LossCount == << <<"loss", <<Float_(1, 8)>> >>, <<"count", <<Float_(1, 1), Float_(2, 1)>> >> >>
AccOnly == << <<"acc", <<Float_(1, 1)>> >> >>
EmptyLossAcc == << <<"loss", << >> >>, <<"acc", <<Float_(1, 1)>> >> >>

FileTrainStats == {None, Some(LossAvg)}
FileValidStats == {None, Some(LossCount), Some(EmptyLossAcc)}
FileTestStats == {None, Some(LossAvg), Some(AccOnly)}

\* one log_stats call on the FileTrainLogger
FileLogStats ==
    /\ Len(file_calls) < MaxCalls
    /\ \E e \in FileEpochStats, tr \in FileTrainStats, va \in FileValidStats,
          te \in FileTestStats, verbose \in BOOLEAN :
         LET st == [save_file |-> save_file, console |-> console,
                    io_trace |-> io_trace, err |-> "none"]
             r == FileTrainLogger_log_stats(summary_fns, st, e, tr, va, te, verbose)
         IN  /\ save_file' = r.save_file
             /\ console' = r.console
             /\ io_trace' = r.io_trace
             /\ file_calls' = Append(file_calls,
                    [epoch_stats |-> e, train_stats |-> tr, valid_stats |-> va,
                     test_stats |-> te, verbose |-> verbose, omitted |-> FALSE,
                     err |-> r.err])
    /\ UNCHANGED summary_fns
    /\ UNCHANGED tbVars
    /\ UNCHANGED avgVars

(***************************************************************************)
(* Calls that leave verbose out                                            *)
(***************************************************************************)

\* TrainLogger.log_stats(..., verbose=False)
TrainLogger_default_verbose == FALSE

\* variant: the default of the interface
FileTrainLogger_default_verbose_false == FALSE

\* FileTrainLogger.log_stats(..., verbose=True)
FileTrainLogger_default_verbose == TRUE

\* TensorboardLogger.log_stats(..., verbose=False)
TensorboardLogger_default_verbose == FALSE

\* the value a parameter is bound to: the default when the argument is omitted
Bind(arg, default) == IF arg = None THEN default ELSE arg[1]

\* one FileTrainLogger.log_stats call made without a verbose argument
FileLogStatsDefault ==
    /\ Len(file_calls) < MaxCalls
    /\ \E e \in FileEpochStats, tr \in FileTrainStats,
          va \in {None, Some(LossCount)}, te \in {None, Some(AccOnly)} :
         LET verbose == Bind(None, FileTrainLogger_default_verbose)
             st == [save_file |-> save_file, console |-> console,
                    io_trace |-> io_trace, err |-> "none"]
             r == FileTrainLogger_log_stats(summary_fns, st, e, tr, va, te, verbose)
         IN  /\ save_file' = r.save_file
             /\ console' = r.console
             /\ io_trace' = r.io_trace
             /\ file_calls' = Append(file_calls,
                    [epoch_stats |-> e, train_stats |-> tr, valid_stats |-> va,
                     test_stats |-> te, verbose |-> verbose, omitted |-> TRUE,
                     err |-> r.err])
    /\ UNCHANGED summary_fns
    /\ UNCHANGED tbVars
    /\ UNCHANGED avgVars

\* one TensorboardLogger.log_stats call made without a verbose argument
TbLogStatsDefault ==
    /\ Len(tb_calls) < MaxCalls
    /\ \E va \in {None, Some(LossOne)} :
         LET verbose == Bind(None, TensorboardLogger_default_verbose)
             e == << <<"epoch", Int_(1)>>, <<"lr", Float_(1, 8)>> >>
             r == TensorboardLogger_log_stats(global_step, writer, console,
                                              e, None, va, None, verbose, 0)
         IN  /\ global_step' = r.global_step
             /\ writer' = r.writer
             /\ console' = r.console
             /\ last_verbose' = <<verbose, verbose>>
             /\ tb_calls' = Append(tb_calls,
                    [epoch_stats |-> e, train_stats |-> None, valid_stats |-> va,
                     test_stats |-> None, err |-> r.err, attempts |-> r.n])
    /\ UNCHANGED <<twin_step, twin_writer>>
    /\ UNCHANGED fileVars
    /\ UNCHANGED avgVars

(***************************************************************************)
(* Arguments the callers of summarize_average draw from                    *)
(***************************************************************************)
AvgSamples == {Float_(1, 8), Int_(3), Float_(2, 1), Float_(4, 1), Float_(6, 1)}
AvgLists == UNION {[1..n -> AvgSamples] : n \in 0..MaxLen}

\* no summarize_average call has been made
NotCalled == [err |-> "not called", value |-> None]

\* one summarize_average call
AvgCall ==
    /\ \E stat_list \in AvgLists :
         /\ avg_in' = stat_list
         /\ avg_out' = summarize_average(stat_list)
    /\ UNCHANGED tbVars
    /\ UNCHANGED fileVars
    /\ UNCHANGED console

Init ==
    /\ global_step = TensorboardLogger_init
    /\ writer = << >>
    /\ twin_step = TensorboardLogger_init
    /\ twin_writer = << >>
    /\ console = << >>
    /\ tb_calls = << >>
    /\ last_verbose = <<FALSE, FALSE>>
    /\ summary_fns = FileSummaryFns
    /\ save_file = << >>
    /\ io_trace = << >>
    /\ file_calls = << >>
    /\ avg_in = << >>
    /\ avg_out = NotCalled

NextTb == TbLogStats
SpecTb == Init /\ [][NextTb]_vars

NextTbUnreliable == TbLogStatsUnreliable
SpecTbUnreliable == Init /\ [][NextTbUnreliable]_vars

NextTbPair == TbLogStatsPair
SpecTbPair == Init /\ [][NextTbPair]_vars

NextFile == FileLogStats
SpecFile == Init /\ [][NextFile]_vars

NextAvg == AvgCall
SpecAvg == Init /\ [][NextAvg]_vars

NextDefault == FileLogStatsDefault \/ TbLogStatsDefault
SpecDefault == Init /\ [][NextDefault]_vars

(***************************************************************************)
(* Properties of TensorboardLogger                                         *)
(***************************************************************************)
StatNames == {"loss", "acc"}

\* the bundle a recorded call passed for a phase
BundleOf(call, phase) ==
    IF phase = "train" THEN call.train_stats
    ELSE IF phase = "valid" THEN call.valid_stats
    ELSE call.test_stats

\* the samples a recorded call passed for (phase, stat)
SamplesIn(call, phase, stat) ==
    LET b == BundleOf(call, phase)
    IN  IF b = None THEN << >>
        ELSE IF stat \in Keys(b[1]) THEN Lookup(b[1], stat) ELSE << >>

\* every sample passed for (phase, stat) in the first n calls, in order
RECURSIVE PassedUpTo(_, _, _)
PassedUpTo(phase, stat, n) ==
    IF n = 0 THEN << >>
    ELSE PassedUpTo(phase, stat, n - 1) \o SamplesIn(tb_calls[n], phase, stat)

\* the points the sample loop forwarded on series "{stat}/{phase}"
SamplePoints(phase, stat) ==
    SelectSeq(writer, LAMBDA pt : pt.site = "sample" /\ pt.tag = stat \o "/" \o phase)

\* the k-th sample passed for (phase, stat) is the k-th point of the series,
\* with step k, and the series holds no other sample point
ForwardedInOrder(phase, stat) ==
    LET pts == SamplePoints(phase, stat)
        passed == PassedUpTo(phase, stat, Len(tb_calls))
    IN  /\ Len(pts) = Len(passed)
        /\ \A k \in 1..Len(passed) : pts[k].step = k /\ pts[k].value = passed[k]

\* C1: with a backend that accepts every write, the k-th raw sample ever
\* passed for a train or valid statistic is forwarded as exactly one point on
\* series "{statistic}/{phase}" with step k and that sample's value.
C1_StepsContinueAcrossCalls ==
    \A phase \in {"train", "valid"}, stat \in StatNames : ForwardedInOrder(phase, stat)

\* valid loss [1.0, 2.0] then [3.0] has been forwarded with steps 1, 2, 3
C1_Witness ==
    /\ Len(tb_calls) = 2
    /\ tb_calls[1].valid_stats = Some(LossTwo)
    /\ tb_calls[2].valid_stats = Some(LossOne)
    /\ LET pts == SamplePoints("valid", "loss")
       IN  /\ Len(pts) = 3
           /\ \A k \in 1..3 : pts[k].step = k /\ pts[k].value = Float_(k, 1)

\* C2: a call with a test_stats bundle does not fail, and the samples of its
\* statistics are forwarded on "{statistic}/test" with steps 1, 2, ...
C2_TestStatsAccepted ==
    /\ \A i \in 1..Len(tb_calls) :
           tb_calls[i].test_stats # None => tb_calls[i].err = "none"
    /\ \A stat \in StatNames : ForwardedInOrder("test", stat)

\* the epoch points the first n calls are to forward: one per epoch_stats
\* key of call i, named by the bare key, with step i
RECURSIVE EpochPointsUpTo(_)
EpochPointsUpTo(n) ==
    IF n = 0 THEN << >>
    ELSE EpochPointsUpTo(n - 1) \o
         [k \in 1..Len(tb_calls[n].epoch_stats) |->
             [tag |-> tb_calls[n].epoch_stats[k][1],
              value |-> tb_calls[n].epoch_stats[k][2],
              step |-> n, site |-> "epoch"]]

\* C3: with a backend that accepts every write, the epoch counter equals the
\* number of log_stats calls made, whatever bundles they carried, and every
\* epoch_stats key of the n-th call is one point named by the key with step n.
C3_EpochCountsCalls ==
    /\ global_step.epoch = Len(tb_calls)
    /\ SelectSeq(writer, LAMBDA pt : pt.site = "epoch") = EpochPointsUpTo(Len(tb_calls))

\* two calls with epoch_stats only, and one with every bundle present
C3_Witness ==
    /\ Len(tb_calls) = 2
    /\ \A phase \in {"train", "valid", "test"} : BundleOf(tb_calls[1], phase) = None
    /\ \A phase \in {"train", "valid"} : BundleOf(tb_calls[2], phase) # None
    /\ tb_calls[1].epoch_stats # << >>
    /\ tb_calls[2].epoch_stats = tb_calls[1].epoch_stats
    /\ global_step.epoch = 2
    /\ writer[1].step = 1
    /\ writer[Len(tb_calls[1].epoch_stats) + 1].step = 2

\* C8: two loggers in the same state that get the same call, up to the
\* verbose argument, forward the same points, end with the same counters,
\* and nothing is emitted on the console.
C8_VerboseIgnored ==
    /\ twin_step = global_step
    /\ twin_writer = writer
    /\ console = << >>

\* the last paired call differed in verbose and forwarded points
C8_Witness ==
    /\ Len(tb_calls) = 2
    /\ last_verbose[1] # last_verbose[2]
    /\ Len(writer) > 2
    /\ global_step.epoch = 2

\* C9: across any log_stats call, failed ones included, the epoch counter
\* and every per-(phase, statistic) counter do not decrease, and a counter
\* once created stays.
C9_CountersMonotone ==
    [][ /\ global_step'.epoch >= global_step.epoch
        /\ \A phase \in DOMAIN global_step \ {"epoch"} :
             \A stat \in DOMAIN global_step[phase] :
                /\ stat \in DOMAIN global_step'[phase]
                /\ global_step'[phase][stat] >= global_step[phase][stat] ]_vars

\* a call failed on a write while a counter was already positive
C9_Witness ==
    /\ Len(tb_calls) = 2
    /\ tb_calls[1].err = "none"
    /\ tb_calls[2].err = "WriteError"
    /\ "loss" \in DOMAIN global_step.valid
    /\ global_step.valid["loss"] = 2
    /\ tb_calls[2].valid_stats = Some(LossOne)
    /\ global_step.epoch = 2

(***************************************************************************)
(* Properties of FileTrainLogger                                           *)
(***************************************************************************)

\* the number of calls among the first n of calls that returned normally
RECURSIVE OkCount(_, _)
OkCount(calls, n) ==
    IF n = 0 THEN 0
    ELSE OkCount(calls, n - 1) + (IF calls[n].err = "none" THEN 1 ELSE 0)

\* C4: a successful log_stats call adds exactly one line at the end of the
\* file and leaves every line written before unchanged and in place; the
\* file then holds one line per successful call.
C4_AppendOnly ==
    [][ (file_calls' # file_calls /\ file_calls'[Len(file_calls')].err = "none")
        => /\ Len(save_file') = Len(save_file) + 1
           /\ SubSeq(save_file', 1, Len(save_file)) = save_file
           /\ Len(save_file') = OkCount(file_calls', Len(file_calls')) ]_vars

\* two successful calls have left two lines, the first still in place
C4_Witness ==
    /\ Len(file_calls) = 2
    /\ OkCount(file_calls, 2) = 2
    /\ Len(save_file) = 2
    /\ save_file[1] = "epoch: 1 - loss: 2.00"
    /\ save_file[2] = "lr: 0.00 - count: 3"

\* the statistics of the present phase bundles of a call, in the order
\* train, valid, test
FlatStats(call) ==
    (IF call.train_stats = None THEN << >> ELSE call.train_stats[1])
    \o (IF call.valid_stats = None THEN << >> ELSE call.valid_stats[1])
    \o (IF call.test_stats = None THEN << >> ELSE call.test_stats[1])

\* the positions of the statistics that have no summary function
Missing(call) ==
    {k \in 1..Len(FlatStats(call)) : FlatStats(call)[k][1] \notin Keys(summary_fns)}

\* the positions of the statistics whose summary function raises
Raising(call) ==
    {k \in 1..Len(FlatStats(call)) :
        /\ FlatStats(call)[k][1] \in Keys(summary_fns)
        /\ Apply(Lookup(summary_fns, FlatStats(call)[k][1]), FlatStats(call)[k][2]).err # "none"}

Min(S) == CHOOSE m \in S : \A k \in S : m <= k

\* C5 as stated: a call with a statistic that has no summary function fails
\* with a lookup error.
C5_MissingRaisesKeyError ==
    \A i \in 1..Len(file_calls) :
        Missing(file_calls[i]) # {} => file_calls[i].err = "KeyError"

\* C5 as amended: a call with a statistic that has no summary function
\* fails; the error is a lookup error unless the summary function of an
\* earlier statistic raises, and then it is that function's error.
C5_MissingNeverDropped ==
    \A i \in 1..Len(file_calls) :
        LET call == file_calls[i]
            early == {k \in Raising(call) : k < Min(Missing(call))}
        IN  Missing(call) # {} =>
               /\ call.err # "none"
               /\ early = {} => call.err = "KeyError"
               /\ early # {} => call.err = "ZeroDivisionError"

\* one call raised KeyError for "acc", one raised on the empty "loss" first
C5_Witness ==
    /\ Len(file_calls) = 2
    /\ file_calls[1].valid_stats = None
    /\ file_calls[1].test_stats = Some(AccOnly)
    /\ file_calls[1].err = "KeyError"
    /\ file_calls[2].valid_stats = Some(EmptyLossAcc)
    /\ file_calls[2].err = "ZeroDivisionError"
    /\ save_file = << >>

\* the strings of strs from position i on, joined by sep
RECURSIVE JoinFrom(_, _, _)
JoinFrom(strs, sep, i) ==
    IF i > Len(strs) THEN ""
    ELSE IF i = Len(strs) THEN strs[i]
    ELSE strs[i] \o sep \o JoinFrom(strs, sep, i + 1)

\* the rendering of a bundle of scalars: "key: value" items joined by " - "
Rendering(stats) ==
    JoinFrom([k \in 1..Len(stats) |-> item_to_string(stats[k][1], stats[k][2])], " - ", 1)

\* the summaries of a phase bundle: value = summary_fns[statistic](samples)
Summaries(stats) ==
    [k \in 1..Len(stats) |->
        <<stats[k][1], Apply(Lookup(summary_fns, stats[k][1]), stats[k][2]).value>>]

\* the line a successful call is to write: the rendering of epoch_stats and
\* of each present phase, in the order train, valid, test, joined by " - "
ExpectedLine(call) ==
    LET present == SelectSeq(<<call.train_stats, call.valid_stats, call.test_stats>>,
                             LAMBDA b : b # None)
    IN  JoinFrom(<<Rendering(call.epoch_stats)>>
                 \o [k \in 1..Len(present) |-> Rendering(Summaries(present[k][1]))],
                 " - ", 1)

\* the line of the file that the i-th call, a successful one, wrote
LineOf(i) == save_file[OkCount(file_calls, i)]

\* C6: the line of a successful call is the rendering of epoch_stats
\* followed, for each present phase in the order train, valid, test, by
\* " - " and the rendering of the phase's summaries; an absent phase adds
\* nothing.  The call ({"epoch": 1}, train {"loss": [1.0, 3.0]}) writes
\* "epoch: 1 - loss: 2.00".
C6_LineFormat ==
    \A i \in 1..Len(file_calls) :
        LET call == file_calls[i]
        IN  call.err = "none" =>
               /\ LineOf(i) = ExpectedLine(call)
               /\ ( /\ call.epoch_stats = << <<"epoch", Int_(1)>> >>
                    /\ call.train_stats = Some(LossAvg)
                    /\ call.valid_stats = None
                    /\ call.test_stats = None ) => LineOf(i) = "epoch: 1 - loss: 2.00"
               /\ FlatStats(call) = << >> =>
                      LineOf(i) \in {"epoch: 1", "lr: 0.00 - count: 3"}

\* the example call, then a call with all three phases present
C6_Witness ==
    /\ Len(file_calls) = 2
    /\ file_calls[1].train_stats = Some(LossAvg)
    /\ file_calls[1].valid_stats = None
    /\ file_calls[1].test_stats = None
    /\ file_calls[2].train_stats = Some(LossAvg)
    /\ file_calls[2].valid_stats = Some(LossCount)
    /\ file_calls[2].test_stats = Some(LossAvg)
    /\ save_file = << "epoch: 1 - loss: 2.00",
                      "epoch: 1 - loss: 2.00 - loss: 0.12 - count: 2 - loss: 2.00" >>

\* the writes and console lines the first n calls are to make
RECURSIVE ExpectedTrace(_)
ExpectedTrace(n) ==
    IF n = 0 THEN << >>
    ELSE ExpectedTrace(n - 1) \o
         (IF file_calls[n].err # "none" THEN << >>
          ELSE <<[op |-> "write", line |-> LineOf(n)]>> \o
               (IF file_calls[n].verbose
                THEN <<[op |-> "info", line |-> LineOf(n)]>> ELSE << >>))

\* C7: a successful call emits a console line iff verbose is true: exactly
\* one line, equal to the line the call appended to the file, and emitted
\* after the append.
C7_EchoIffVerbose ==
    /\ io_trace = ExpectedTrace(Len(file_calls))
    /\ LET infos == SelectSeq(io_trace, LAMBDA ev : ev.op = "info")
       IN  console = [k \in 1..Len(infos) |-> infos[k].line]

\* a quiet call, then a verbose one whose line followed its file append
C7_Witness ==
    /\ Len(file_calls) = 2
    /\ OkCount(file_calls, 2) = 2
    /\ ~file_calls[1].verbose
    /\ file_calls[2].verbose
    /\ console = <<save_file[2]>>
    /\ Len(io_trace) = 3
    /\ io_trace[2].op = "write"
    /\ io_trace[3].op = "info"

(***************************************************************************)
(* Properties of summarize_average                                         *)
(***************************************************************************)

\* the samples of a list counted in eighths, added up
RECURSIVE TotalEighths(_)
TotalEighths(stat_list) ==
    IF stat_list = << >> THEN 0
    ELSE Head(stat_list).num * (8 \div Head(stat_list).den) + TotalEighths(Tail(stat_list))

\* C10: summarize_average returns the sum of the samples divided by their
\* count for a non-empty list ([2.0, 4.0, 6.0] gives 4.0), as a float, and
\* raises instead of returning a value for the empty list.
C10_ArithmeticMean ==
    avg_out # NotCalled =>
        IF Len(avg_in) = 0
        THEN avg_out.err = "ZeroDivisionError" /\ avg_out.value = None
        ELSE /\ avg_out.err = "none"
             /\ avg_out.value.t = "float"
             /\ avg_out.value.num * 8 * Len(avg_in) = avg_out.value.den * TotalEighths(avg_in)
             /\ avg_in = <<Float_(2, 1), Float_(4, 1), Float_(6, 1)>>
                    => avg_out.value = Float_(4, 1)

\* the mean of [2.0, 4.0, 6.0] has been taken
C10_Witness ==
    /\ avg_in = <<Float_(2, 1), Float_(4, 1), Float_(6, 1)>>
    /\ avg_out = Return(Float_(4, 1))

(***************************************************************************)
(* Order and frame of one TensorboardLogger.log_stats call                 *)
(***************************************************************************)

\* the counter of (phase, stat) in gs, 0 when there is none
CounterIn(gs, phase, stat) ==
    IF phase \in DOMAIN gs /\ stat \in DOMAIN gs[phase] THEN gs[phase][stat] ELSE 0

\* the points of one statistic's samples, in sequence order, after base
StatPoints(phase, stat, value_list, base) ==
    [k \in 1..Len(value_list) |->
        [tag |-> stat \o "/" \o phase, value |-> value_list[k],
         step |-> base + k, site |-> "sample"]]

\* the points of the statistics of a bundle from position i on, in bundle order
RECURSIVE BundlePoints(_, _, _, _)
BundlePoints(gs, phase, stats, i) ==
    IF i > Len(stats) THEN << >>
    ELSE StatPoints(phase, stats[i][1], stats[i][2], CounterIn(gs, phase, stats[i][1]))
         \o BundlePoints(gs, phase, stats, i + 1)

\* the points of a phase of a call; none when the phase is absent
PhasePoints(gs, call, phase) ==
    IF BundleOf(call, phase) = None THEN << >>
    ELSE BundlePoints(gs, phase, BundleOf(call, phase)[1], 1)

\* the points of the epoch_stats of a call made with counters gs
EpochPoints(gs, call) ==
    [k \in 1..Len(call.epoch_stats) |->
        [tag |-> call.epoch_stats[k][1], value |-> call.epoch_stats[k][2],
         step |-> gs.epoch + 1, site |-> "epoch"]]

\* C11: within one call the backend receives one point per epoch_stats key,
\* then all train points, then all valid points, then all test points;
\* within a phase the statistics in bundle order and the samples in
\* sequence order; an absent phase forwards nothing.
C11_FixedOrder ==
    [][ tb_calls' # tb_calls =>
          writer' = writer
                    \o EpochPoints(global_step, tb_calls'[Len(tb_calls')])
                    \o PhasePoints(global_step, tb_calls'[Len(tb_calls')], "train")
                    \o PhasePoints(global_step, tb_calls'[Len(tb_calls')], "valid")
                    \o PhasePoints(global_step, tb_calls'[Len(tb_calls')], "test") ]_vars

(***************************************************************************)
(* Steps of the points of one series                                       *)
(***************************************************************************)

\* the series-names the backend has received points for
Tags == {writer[i].tag : i \in 1..Len(writer)}

\* every point of pts has a greater step than the point before it
StrictlyIncreasing(pts) ==
    \A k \in 1..(Len(pts) - 1) : pts[k].step < pts[k + 1].step

\* C12 as stated: the points received under one series-name have strictly
\* increasing steps in the order they are forwarded, whatever the keys.
C12_SeriesStepsIncrease ==
    \A tag \in Tags :
        StrictlyIncreasing(SelectSeq(writer, LAMBDA pt : pt.tag = tag))

\* C12 as amended: under one series-name the points forwarded from
\* epoch_stats have strictly increasing steps, and so have the points
\* forwarded from phase samples.
C12_StepsIncreasePerSource ==
    \A tag \in Tags, site \in {"epoch", "sample"} :
        StrictlyIncreasing(SelectSeq(writer, LAMBDA pt : pt.tag = tag /\ pt.site = site))

\* "loss/train" was an epoch_stats key and a train series in two calls
C12_Witness ==
    /\ Len(tb_calls) = 2
    /\ \A i \in 1..2 :
          /\ tb_calls[i].epoch_stats = << <<"loss/train", Float_(1, 1)>> >>
          /\ tb_calls[i].train_stats = Some(AccLoss)
          /\ tb_calls[i].err = "none"
    /\ LET pts == SelectSeq(writer, LAMBDA pt : pt.tag = "loss/train")
       IN  /\ Len(pts) = 4
           /\ <<pts[1].step, pts[2].step, pts[3].step, pts[4].step>> = <<1, 1, 2, 2>>
           /\ <<pts[1].site, pts[2].site, pts[3].site, pts[4].site>>
                 = <<"epoch", "sample", "epoch", "sample">>

(***************************************************************************)
(* Frame of a successful TensorboardLogger.log_stats call                  *)
(***************************************************************************)

\* C13: a successful call raises the epoch counter by 1 and changes the
\* counter of each (phase, statistic) pair of its train and valid bundles by
\* the length of the statistic's sample sequence, creating it (at 0 for an
\* empty sequence) if there was none; every other counter keeps its value
\* and no other counter appears, so "loss" in train and "loss" in valid are
\* counted apart.
C13_CounterFrame ==
    [][ (tb_calls' # tb_calls /\ tb_calls'[Len(tb_calls')].err = "none") =>
          LET call == tb_calls'[Len(tb_calls')]
          IN  /\ global_step'.epoch = global_step.epoch + 1
              /\ DOMAIN global_step' = DOMAIN global_step
              /\ \A phase \in {"train", "valid"} :
                    /\ DOMAIN global_step'[phase] =
                          DOMAIN global_step[phase] \cup
                          (IF BundleOf(call, phase) = None THEN {}
                           ELSE Keys(BundleOf(call, phase)[1]))
                    /\ \A stat \in DOMAIN global_step'[phase] :
                          global_step'[phase][stat] =
                             CounterIn(global_step, phase, stat)
                             + Len(SamplesIn(call, phase, stat)) ]_vars

\* train {"acc": [], "loss": [3.0]} twice and valid {"loss": [1.0, 2.0]} once
C13_Witness ==
    /\ Len(tb_calls) = 2
    /\ \A i \in 1..2 : tb_calls[i].err = "none" /\ tb_calls[i].train_stats = Some(AccLoss)
    /\ tb_calls[1].valid_stats = None
    /\ tb_calls[2].valid_stats = Some(LossTwo)
    /\ global_step = [train |-> ("acc" :> 0) @@ ("loss" :> 2),
                      valid |-> ("loss" :> 2), epoch |-> 2]

(***************************************************************************)
(* Failed FileTrainLogger.log_stats calls                                  *)
(***************************************************************************)

\* C14: a call that fails because a statistic has no summary function or
\* because a summary function raises leaves the file, the console and the
\* order of outputs as they were, verbose or not; a successful call puts
\* its line right after the last line written before, so the file holds
\* one line per successful call whatever calls failed in between.
C14_FailureHasNoEffect ==
    [][ file_calls' # file_calls =>
          LET call == file_calls'[Len(file_calls')]
          IN  IF call.err \in {"KeyError", "ZeroDivisionError"}
              THEN /\ save_file' = save_file
                   /\ console' = console
                   /\ io_trace' = io_trace
              ELSE /\ call.err = "none"
                   /\ save_file' = Append(save_file, save_file'[Len(save_file')])
                   /\ Len(save_file') = OkCount(file_calls', Len(file_calls')) ]_vars

\* a verbose call failed on summarize_average([]), then a quiet call wrote
\* the first line of the file
C14_Witness ==
    /\ Len(file_calls) = 2
    /\ file_calls[1].verbose
    /\ file_calls[1].err = "ZeroDivisionError"
    /\ ~file_calls[2].verbose
    /\ file_calls[2].err = "none"
    /\ save_file = <<"epoch: 1 - loss: 2.00">>
    /\ console = << >>
    /\ Len(io_trace) = 1

(***************************************************************************)
(* Backend write failures                                                  *)
(***************************************************************************)

\* the writes the first n calls attempted, less the one that raised in
\* each call that ended with the write's error
RECURSIVE WritesPropagatedOrDone(_)
WritesPropagatedOrDone(n) ==
    IF n = 0 THEN 0
    ELSE WritesPropagatedOrDone(n - 1) + tb_calls[n].attempts
         - (IF tb_calls[n].err = "WriteError" THEN 1 ELSE 0)

\* C15: a failed backend write ends the call with the write's error, so
\* every attempted write is either received or the last of a call that
\* raised; each per-(phase, statistic) counter equals the number of sample
\* points received on its series, so a failed step is used again; the epoch
\* counter equals the number of calls started, failed ones included.
C15_CountersCountForwarded ==
    /\ Len(writer) = WritesPropagatedOrDone(Len(tb_calls))
    /\ \A phase \in {"train", "valid"}, stat \in StatNames :
          CounterIn(global_step, phase, stat) = Len(SamplePoints(phase, stat))
    /\ global_step.epoch = Len(tb_calls)

\* the write of the first valid loss sample failed in the first call, and
\* the second call forwarded its sample with step 1
C15_Witness ==
    /\ Len(tb_calls) = 2
    /\ tb_calls[1].err = "WriteError"
    /\ tb_calls[1].attempts = 3
    /\ tb_calls[1].train_stats = None
    /\ tb_calls[1].valid_stats = Some(LossOne)
    /\ tb_calls[2].err = "none"
    /\ tb_calls[2].valid_stats = Some(LossOne)
    /\ global_step.valid["loss"] = 1
    /\ global_step.epoch = 2
    /\ LET pts == SamplePoints("valid", "loss")
       IN  Len(pts) = 1 /\ pts[1].step = 1

(***************************************************************************)
(* The default of verbose                                                  *)
(***************************************************************************)

\* C16: a FileTrainLogger.log_stats call without a verbose argument echoes
\* its line on the console after writing it, as a call with verbose=True
\* does, while the defaults of TrainLogger.log_stats and of
\* TensorboardLogger.log_stats are False and a TensorboardLogger call
\* without the argument emits nothing.
C16_DefaultsDiffer ==
    /\ \A i \in 1..Len(file_calls) : file_calls[i].omitted
    /\ Len(io_trace) = 2 * Len(save_file)
    /\ \A k \in 1..Len(save_file) :
          /\ io_trace[2 * k - 1] = [op |-> "write", line |-> save_file[k]]
          /\ io_trace[2 * k] = [op |-> "info", line |-> save_file[k]]
    /\ console = save_file
    /\ Len(save_file) = OkCount(file_calls, Len(file_calls))
    /\ Bind(None, TrainLogger_default_verbose) = FALSE
    /\ last_verbose = <<FALSE, FALSE>>

\* two calls without verbose on each logger; both file lines were echoed
C16_Witness ==
    /\ Len(file_calls) = 2
    /\ OkCount(file_calls, 2) = 2
    /\ console = <<"epoch: 1 - loss: 2.00", "lr: 0.00 - count: 3">>
    /\ console = save_file
    /\ Len(tb_calls) = 2
    /\ Len(writer) > 4

====
